---- MODULE Spec2Model ----
(***************************************************************************)
(* Build-job lifecycle of the gce-xfstests build server.                   *)
(*                                                                         *)
(*   BuildManager (gce-bldsrv/buildmanager.py)  the orchestrator: run()    *)
(*       forks a worker that starts the Kbuild job, joins it, uploads the  *)
(*       kernel image to the GCS bucket and removes the local image.       *)
(*   Kbuild (gce-bldsrv/kbuild.py)  the job: run() forks a worker that     *)
(*       runs buildkernel.sh, waits for it, then polls for the image and   *)
(*       removes it.                                                       *)
(*   BldsrvManager (gce-ltm/bldsrvmanager.py)  the remote coordinator:     *)
(*       run() forks a worker that launches the build server, waits, and   *)
(*       relays the command line over two HTTPS POSTs.                     *)
(*                                                                         *)
(* Spec is the orchestrator with its job and compile subprocess.           *)
(* CoordSpec is the remote coordinator.                                    *)
(* ServerSpec follows either of the two, with the caller of run().         *)
(* IdSpec generates build ids from the local wall clock.                   *)
(* InfoSpec is Spec with get_info called at any point.                     *)
(* CtorSpec is Spec preceded by BuildManager.__init__, step by step.       *)
(* PairSpec runs two BuildManagers on one build server.                    *)
(***************************************************************************)
EXTENDS Integers, Sequences, FiniteSets, TLC

VARIABLES
    \* ---- filesystem and bucket (shared, external) ----
    fs,             \* path -> "absent" | "stale" | "built"
    bucket,         \* set of blobs [name, data] of the GCS bucket self.gs_bucket
    \* ---- BuildManager ----
    kernel_build,   \* self.kernel_build: the path the orchestrator uploads and removes
    mpc,            \* position of the BuildManager worker
    mlog,           \* messages the BuildManager worker has logged
    storageCalls,   \* google.cloud.storage calls made, in order
    mhist,          \* steps of __upload_build/__cleanup taken, in order
    \* ---- Kbuild ----
    kpc,            \* position of the Kbuild worker
    started,        \* result of Kbuild.__start: "unset" | "True" | "False"
    successful,     \* result of Kbuild.__monitor: "unset" | "True" | "False"
    i,              \* sleeps done in the current round of the monitor loop
    elapsed,        \* seconds slept in the monitor loop so far (saturating)
    klog,           \* messages the Kbuild worker has logged
    khist,          \* phases of the job entered, in order
    \* ---- buildkernel.sh subprocess ----
    cpc,            \* "none" | "running" | "exited"
    returncode,     \* <<>> until the subprocess exited, then <<code>>
    wrote,          \* paths holding a freshly built image when the subprocess exited
    \* ---- BldsrvManager ----
    bpc,            \* position of the BldsrvManager worker
    bstarted,       \* result of BldsrvManager.__start: "unset" | "True" | "False"
    waits,          \* one-second sleeps done after the launch
    netCalls,       \* API and HTTP calls made, in order
    loginResp,      \* response to the login POST, "none" before it
    content,        \* <<>> until the command POST returned, then <<r.content>>
    sent,           \* <<>> until __send_to_bldsrv returned, then <<its result>>
    bexc,           \* the step that raised and ended the worker, "none" otherwise
    blog,           \* messages the BldsrvManager worker has logged
    \* ---- Kbuild, continued ----
    kexc,           \* the call of Kbuild.__start that raised, "none" otherwise
    \* ---- get_datetime_build_id ----
    clock,          \* the instant: seconds since 2026-01-01 00:00:00 UTC, microseconds
    utcoffset,      \* seconds the local wall clock is ahead of UTC
    ticks,          \* steps the clock has made
    ids,            \* the build ids generated so far, in order of generation
    readings,       \* for each generated id: the instant and the offset in force
    \* ---- BuildManager fields read by get_info ----
    repository,     \* self.repository
    commit,         \* self.commit
    id,             \* self.id
    infos,          \* what get_info has returned, with the phase of the worker at the call
    \* ---- BuildManager.__init__ ----
    opts,           \* the opts argument: a dictionary, empty for None
    ctor,           \* where the constructor is: a step, "done" or "raised"
    cexc,           \* the exception the constructor's caller got, "none" otherwise
    \* ---- the callers of run() ----
    callerPc,       \* the caller of BuildManager.run: "idle", "in_run", "returned"
    bcallerPc,      \* the caller of BldsrvManager.run: "idle", "in_run", "returned"
    \* ---- two BuildManagers on one build server ----
    insts,          \* per instance: position, id, repository
    pfs,            \* the files of the server: the instance whose compile wrote it, 0 if absent
    pevents         \* which instance touched whose file or log directory, and how

\* what the BuildManager worker, its job and the compile process work on
workerVars == <<fs, bucket, kernel_build, mpc, mlog, storageCalls, mhist,
                kpc, started, successful, i, elapsed, klog, khist,
                cpc, returncode, wrote>>

buildVars == <<callerPc, workerVars>>

\* what the BldsrvManager worker works on
bworkerVars == <<bpc, bstarted, waits, netCalls, loginResp, content, sent, bexc, blog>>

coordVars == <<bcallerPc, bworkerVars>>

idVars == <<clock, utcoffset, ticks, ids, readings>>

fieldVars == <<repository, commit, id>>

ctorVars == <<opts, ctor, cexc>>

pairVars == <<insts, pfs, pevents>>

\* state that neither the workers nor the clock touch
extVars == <<fieldVars, infos, ctorVars, pairVars>>

\* what the steps of the two workers leave alone, unless they say otherwise
restVars == <<kexc, idVars, extVars>>

vars == <<buildVars, coordVars, restVars>>

(***************************************************************************)
(* Constants of the program                                                *)
(***************************************************************************)

\* kbuild.py: self.image_file_path
image_file_path == "/root/builds/linux/arch/x86/boot/bzImage"

\* buildmanager.py: BLDSRV.repo_cache_path + md5(repository) + BLDSRV.image_path
repo_cache_image_path == "<repo_cache_path><md5(repository)><image_path>"

\* buildmanager.py: self.kernel_build_filename = BLDSRV.image_name
kernel_build_filename == "<image_name>"

Paths == {image_file_path, repo_cache_image_path}

\* bldsrv.py defines neither repo_cache_path nor image_path: the orchestrator's
\* path may or may not be the file the job polls and removes.
KernelBuildPaths == Paths

\* kbuild.py __monitor: for _ in range(30)
MonitorSleeps == 30

\* kbuild.py __monitor docstring: "not complete after 30 minutes", in seconds
MonitorTimeoutSecs == 1800

\* exit codes of buildkernel.sh that are told apart
ReturnCodes == {0, 1}

\* elapsed saturates here
MaxElapsed == 1831

(***************************************************************************)
(* Helpers                                                                 *)
(***************************************************************************)

\* os.path.isfile(p)
IsFile(f, p) == f[p] # "absent"

Remove_Noop(f, p) == f

\* os.remove(p)
Remove(f, p) == [f EXCEPT ![p] = "absent"]

UploadFromFile_Adds(b, name, data) == b \cup {[name |-> name, data |-> data]}

\* bucket.blob(name).upload_from_file(file): the blob of that name is replaced
UploadFromFile(b, name, data) ==
    {x \in b : x.name # name} \cup {[name |-> name, data |-> data]}

Blobs(b, name) == {x \in b : x.name = name}

Range(s) == {s[k] : k \in 1..Len(s)}

JoinReturns_NoWait(p) == TRUE

\* multiprocessing.Process.join() returns once the process has exited
JoinReturns(p) == p = "exited"

WaitReturns_NoWait(c) == TRUE

\* subprocess.Popen.wait() returns once the subprocess has exited
WaitReturns(c) == c = "exited"

StartResult_Always(rc) == "True"

\* Kbuild.__start: return returncode == 0 (rc is <<>> for None)
StartResult(rc) == IF rc = <<0>> THEN "True" ELSE "False"

AfterStart_NoBranch(st) == "monitor"

\* Kbuild.__run: if not started: ... else: monitor, finish
AfterStart(st) == IF st # "True" THEN "failed" ELSE "monitor"

\* Kbuild.__monitor: the loop is left only when the image is there
MonitorBreaks(f) == IsFile(f, image_file_path)

SatInc(n) == IF n < MaxElapsed THEN n + 1 ELSE n

\* ---------------------------------------------------------------------
\* get_datetime_build_id (buildmanager.py)
\* ---------------------------------------------------------------------

EpochYear == 2026
SecsPerMinute == 60
SecsPerHour == 3600
SecsPerDay == 86400
MicrosPerSec == 1000000

IsLeap(y) == (y % 4 = 0 /\ y % 100 # 0) \/ y % 400 = 0

DaysInYear(y) == IF IsLeap(y) THEN 366 ELSE 365

DaysInMonth(y, m) ==
    IF m = 2 THEN (IF IsLeap(y) THEN 29 ELSE 28)
    ELSE IF m \in {4, 6, 9, 11} THEN 30 ELSE 31

RECURSIVE YearFrom(_, _)
\* the year and the day of that year (from 0) of day d counted from 1 January of y
YearFrom(d, y) ==
    IF d < DaysInYear(y) THEN [year |-> y, yday |-> d]
    ELSE YearFrom(d - DaysInYear(y), y + 1)

RECURSIVE MonthFrom(_, _, _)
\* the month and the day of the month of day d (from 0) counted from the first of month m
MonthFrom(d, y, m) ==
    IF d < DaysInMonth(y, m) THEN [month |-> m, day |-> d + 1]
    ELSE MonthFrom(d - DaysInMonth(y, m), y, m + 1)

RECURSIVE DaysBeforeMonth(_, _)
DaysBeforeMonth(y, m) ==
    IF m = 1 THEN 0 ELSE DaysBeforeMonth(y, m - 1) + DaysInMonth(y, m - 1)

RECURSIVE DaysBeforeYear(_)
DaysBeforeYear(y) ==
    IF y = EpochYear THEN 0 ELSE DaysBeforeYear(y - 1) + DaysInYear(y - 1)

\* the second, counted from the epoch, at which a calendar time starts
SecsOf(y, mo, d, h, mi, sec) ==
    (DaysBeforeYear(y) + DaysBeforeMonth(y, mo) + (d - 1)) * SecsPerDay
        + h * SecsPerHour + mi * SecsPerMinute + sec

\* the naive datetime whose fields are those of second t and microsecond u
Civil(t, u) ==
    LET yd  == YearFrom(t \div SecsPerDay, EpochYear)
        md  == MonthFrom(yd.yday, yd.year, 1)
        rem == t % SecsPerDay
    IN  [year |-> yd.year, month |-> md.month, day |-> md.day,
         hour |-> rem \div SecsPerHour,
         minute |-> (rem % SecsPerHour) \div SecsPerMinute,
         second |-> rem % SecsPerMinute,
         microsecond |-> u]

\* datetime.now(): the local wall clock's reading, without a time zone
DatetimeNow(c, off) == Civil(c.s + off, c.us)

RECURSIVE Digits(_)
\* the decimal digits of a natural number, most significant first
Digits(n) == IF n < 10 THEN <<n>> ELSE Digits(n \div 10) \o <<n % 10>>

Zeros(k) == [j \in 1..k |-> 0]

Pad_NoZeros(n, w) == Digits(n)

\* '%.<w>d' % n: at least w digits, zeros on the left, never cut
Pad(n, w) ==
    LET dgs == Digits(n)
    IN  IF Len(dgs) >= w THEN dgs ELSE Zeros(w - Len(dgs)) \o dgs

\* get_datetime_build_id, from the reading of datetime.now()
get_datetime_build_id(curtime) ==
    Pad(curtime.year, 4) \o Pad(curtime.month, 2) \o Pad(curtime.day, 2)
        \o Pad(curtime.hour, 2) \o Pad(curtime.minute, 2) \o Pad(curtime.second, 2)

\* instants at which a run of the build server may start
StartInstants ==
    { [s |-> SecsOf(2026, 9, 30, 23, 59, 58), us |-> 200000],
      [s |-> SecsOf(2026, 12, 31, 23, 59, 59), us |-> 999999],
      [s |-> SecsOf(2028, 2, 28, 23, 59, 58), us |-> 0] }

\* offsets of the local wall clock: standard time and daylight saving time
UtcOffsets == {0, SecsPerHour}

\* how far the clock moves between two looks at it
TickSteps == { [s |-> 0, us |-> 400000], [s |-> 1, us |-> 0] }

MaxTicks == 3
MaxIds == 3

Advance(c, step) ==
    LET u == c.us + step.us
    IN  [s |-> c.s + step.s + u \div MicrosPerSec, us |-> u % MicrosPerSec]

InitClock ==
    /\ clock \in StartInstants
    /\ utcoffset \in UtcOffsets

(***************************************************************************)
(* Initial state: a BuildManager and its Kbuild have been constructed.     *)
(* BuildManager.__init__ as written hands Kbuild.__init__ five arguments   *)
(* where it takes four, and reads BLDSRV.repo_cache_path, image_path and   *)
(* image_name, which bldsrv.py does not define; the workers are modelled   *)
(* from the fields __init__ is written to set.  A stale image may be left  *)
(* at either path and the bucket may hold an older blob.                   *)
(***************************************************************************)
InitBuild ==
    /\ fs \in [Paths -> {"absent", "stale"}]
    /\ bucket \in {{}, {[name |-> kernel_build_filename, data |-> "stale"]},
                   {[name |-> "other", data |-> "stale"]}}
    /\ kernel_build \in KernelBuildPaths
    /\ mpc = "constructed"
    /\ callerPc = "idle"
    /\ mlog = {}
    /\ storageCalls = <<>>
    /\ mhist = <<>>
    /\ kpc = "none"
    /\ started = "unset"
    /\ successful = "unset"
    /\ i = 0
    /\ elapsed = 0
    /\ klog = {}
    /\ khist = <<>>
    /\ cpc = "none"
    /\ returncode = <<>>
    /\ wrote = {}
    /\ kexc = "none"

\* a BldsrvManager has been constructed
InitCoord ==
    /\ bpc = "constructed"
    /\ bcallerPc = "idle"
    /\ bstarted = "unset"
    /\ waits = 0
    /\ netCalls = <<>>
    /\ loginResp = "none"
    /\ content = <<>>
    /\ sent = <<>>
    /\ bexc = "none"
    /\ blog = {}

\* no build id has been asked for
InitIds ==
    /\ ticks = 0
    /\ ids = <<>>
    /\ readings = <<>>

\* the clock of a run in which no build id is asked for
InitClockIdle ==
    /\ clock = [s |-> 0, us |-> 0]
    /\ utcoffset = 0

\* ---------------------------------------------------------------------
\* two BuildManagers on one build server: paths and initial state
\* ---------------------------------------------------------------------

Insts == {1, 2}

Repos == {"repo_a", "repo_b"}

\* self.kernel_build: BLDSRV.repo_cache_path + md5(repository) + BLDSRV.image_path
RepoImage(r) ==
    IF r = "repo_a" THEN "<repo_cache_path><md5(repo_a)><image_path>"
    ELSE "<repo_cache_path><md5(repo_b)><image_path>"

PairPaths == {image_file_path} \cup {RepoImage(r) : r \in Repos}

NewInst(r) == [pc |-> "new", id |-> <<>>, repo |-> r]

\* no second BuildManager is around
InitPairIdle ==
    /\ insts = [n \in Insts |-> NewInst("repo_a")]
    /\ pfs = [p \in PairPaths |-> 0]
    /\ pevents = {}

\* the opts a build request carries
Requests ==
    { [git_repo |-> "repo_a", commit_id |-> "commit_a"],
      [git_repo |-> "repo_b", commit_id |-> "commit_b"] }

DefaultOpts == [git_repo |-> "repo_a", commit_id |-> "commit_a"]

\* BuildManager.__init__: self.id, self.commit, self.repository
InitFields(o) ==
    /\ id = get_datetime_build_id(DatetimeNow(clock, utcoffset))
    /\ commit = o.commit_id
    /\ repository = o.git_repo
    /\ infos = {}
    /\ opts = o
    /\ ctor = "done"
    /\ cexc = "none"

Init ==
    /\ InitBuild
    /\ InitCoord
    /\ InitClockIdle
    /\ InitIds
    /\ InitFields(DefaultOpts)
    /\ InitPairIdle

(***************************************************************************)
(* BuildManager                                                            *)
(***************************************************************************)

\* BuildManager.run: fork the worker and return
Run ==
    /\ ctor = "done"
    /\ mpc = "constructed"
    /\ callerPc = "idle"
    /\ mpc' = "setup_logging"
    /\ callerPc' = "in_run"
    /\ UNCHANGED <<coordVars, restVars, fs, bucket, kernel_build, mlog, storageCalls, mhist,
                   kpc, started, successful, i, elapsed, klog, khist,
                   cpc, returncode, wrote>>

RunReturns_Joins(w) == w \in {"exited", "aborted"}

\* BuildManager.run and BldsrvManager.run: process.start() is followed by
\* return; nothing is joined or waited for, wherever the worker w is
RunReturns(w) == TRUE

\* BuildManager.run returns to its caller
RunReturn ==
    /\ callerPc = "in_run"
    /\ RunReturns(mpc)
    /\ callerPc' = "returned"
    /\ UNCHANGED <<coordVars, restVars, workerVars>>

\* BuildManager.__run: _setup_logging()
MSetupLogging ==
    /\ mpc = "setup_logging"
    /\ mpc' = "start"
    /\ UNCHANGED <<coordVars, restVars, callerPc, fs, bucket, kernel_build, mlog, storageCalls, mhist,
                   kpc, started, successful, i, elapsed, klog, khist,
                   cpc, returncode, wrote>>

\* BuildManager.__start: self.kbuild.run() forks the job's worker
MStart ==
    /\ mpc = "start"
    /\ kpc = "none"
    /\ kpc' = "setup_logging"
    /\ mlog' = mlog \cup {"Started build"}
    /\ mpc' = "wait_for_build"
    /\ UNCHANGED <<coordVars, restVars, callerPc, fs, bucket, kernel_build, storageCalls, mhist,
                   started, successful, i, elapsed, klog, khist,
                   cpc, returncode, wrote>>

\* BuildManager.__wait_for_build: self.kbuild.process.join()
MWaitForBuild ==
    /\ mpc = "wait_for_build"
    /\ JoinReturns(kpc)
    /\ mpc' = "upload_build"
    /\ mlog' = mlog \cup {"Entered finish()"}
    /\ UNCHANGED <<coordVars, restVars, callerPc, fs, bucket, kernel_build, storageCalls, mhist,
                   kpc, started, successful, i, elapsed, klog, khist,
                   cpc, returncode, wrote>>

\* What __upload_build can meet when the image is there: every call returns,
\* storage.Client() raises, lookup_bucket returns None (bucket.blob then
\* raises), upload_from_file raises. "skip" is the else branch.
UploadOutcomes == {"ok", "client_raises", "no_bucket", "upload_raises"}

UploadAttempts(present) == IF present THEN UploadOutcomes ELSE {"skip"}

UploadCalls_ClientFirst(o) ==
    CASE o = "skip"          -> <<"Client", "lookup_bucket">>
      [] o = "client_raises" -> <<"Client">>
      [] o = "no_bucket"     -> <<"Client", "lookup_bucket">>
      [] OTHER               -> <<"Client", "lookup_bucket", "upload_from_file">>

\* the google.cloud.storage calls __upload_build makes
UploadCalls(o) ==
    CASE o = "skip"          -> <<>>
      [] o = "client_raises" -> <<"Client">>
      [] o = "no_bucket"     -> <<"Client", "lookup_bucket">>
      [] OTHER               -> <<"Client", "lookup_bucket", "upload_from_file">>

AfterUpload_Swallowed(o) == "cleanup"

\* BuildManager.__finish: __upload_build is not guarded, so a storage call
\* that raises ends the worker; otherwise __cleanup comes next
AfterUpload(o) == IF o \in {"skip", "ok"} THEN "cleanup" ELSE "aborted"

\* BuildManager.__upload_build
MUploadBuild ==
    /\ mpc = "upload_build"
    /\ \E o \in UploadAttempts(IsFile(fs, kernel_build)) :
          /\ storageCalls' = storageCalls \o UploadCalls(o)
          /\ CASE o = "skip" ->
                    /\ mlog' = mlog \cup {"Could not find bzImage to upload."}
                    /\ mhist' = Append(mhist, "notfound")
                    /\ bucket' = bucket
                    /\ mpc' = AfterUpload(o)
               [] o = "ok" ->
                    /\ bucket' = UploadFromFile(bucket, kernel_build_filename,
                                                fs[kernel_build])
                    /\ mhist' = mhist \o <<"found", "uploaded">>
                    /\ mlog' = mlog
                    /\ mpc' = AfterUpload(o)
               [] OTHER ->
                    /\ bucket' = bucket
                    /\ mhist' = mhist \o <<"found", "raised">>
                    /\ mlog' = mlog
                    /\ mpc' = AfterUpload(o)
    /\ UNCHANGED <<coordVars, restVars, callerPc, fs, kernel_build, kpc, started, successful, i, elapsed,
                   klog, khist, cpc, returncode, wrote>>

\* BuildManager.__cleanup
MCleanup ==
    /\ mpc = "cleanup"
    /\ IF IsFile(fs, kernel_build)
       THEN /\ fs' = Remove(fs, kernel_build)
            /\ mhist' = Append(mhist, "removed")
       ELSE UNCHANGED <<fs, mhist>>
    /\ mlog' = mlog \cup {"Finished cleanup"}
    /\ mpc' = "done"
    /\ UNCHANGED <<coordVars, restVars, callerPc, bucket, kernel_build, storageCalls,
                   kpc, started, successful, i, elapsed, klog, khist,
                   cpc, returncode, wrote>>

\* BuildManager.__finish: logging.info('Done.'); __run: exit()
MExit ==
    /\ mpc = "done"
    /\ mlog' = mlog \cup {"Done."}
    /\ mpc' = "exited"
    /\ UNCHANGED <<coordVars, restVars, callerPc, fs, bucket, kernel_build, storageCalls, mhist,
                   kpc, started, successful, i, elapsed, klog, khist,
                   cpc, returncode, wrote>>

(***************************************************************************)
(* Kbuild                                                                  *)
(***************************************************************************)

\* Kbuild.__run: _setup_logging()
KSetupLogging ==
    /\ kpc = "setup_logging"
    /\ kpc' = "start"
    /\ UNCHANGED <<coordVars, restVars, callerPc, fs, bucket, kernel_build, mpc, mlog, storageCalls, mhist,
                   started, successful, i, elapsed, klog, khist,
                   cpc, returncode, wrote>>

\* What the first half of Kbuild.__start can meet: the subprocess is launched,
\* open(buildlog_file_path, 'w') raises, or subprocess.Popen raises (the
\* script is missing or cannot be executed). Neither call is guarded.
StartOutcomes == {"launched", "open_raises", "popen_raises"}

\* Kbuild.__start: open the build log, subprocess.Popen(buildkernel.sh);
\* a call that raises ends the job's worker
KStartPopen ==
    /\ kpc = "start"
    /\ cpc = "none"
    /\ khist' = Append(khist, "start")
    /\ \E o \in StartOutcomes :
          IF o = "launched"
          THEN /\ cpc' = "running"
               /\ kpc' = "wait"
               /\ kexc' = kexc
          ELSE /\ cpc' = cpc
               /\ kpc' = "exited"
               /\ kexc' = o
    /\ UNCHANGED <<coordVars, idVars, extVars, callerPc, fs, bucket, kernel_build, mpc, mlog, storageCalls,
                   mhist, started, successful, i, elapsed, klog, returncode, wrote>>

\* buildkernel.sh runs and exits: it may leave, remove or build the image
\* at each path, and exits with some code
CompileExit ==
    /\ cpc = "running"
    /\ \E rc \in ReturnCodes, f \in [Paths -> {"absent", "stale", "built"}] :
          /\ \A p \in Paths : f[p] \in {fs[p], "absent", "built"}
          /\ fs' = f
          /\ returncode' = <<rc>>
          /\ wrote' = {p \in Paths : f[p] = "built"}
    /\ cpc' = "exited"
    /\ UNCHANGED <<coordVars, restVars, callerPc, bucket, kernel_build, mpc, mlog, storageCalls, mhist,
                   kpc, started, successful, i, elapsed, klog, khist>>

\* Kbuild.__start: returncode = process.wait(); return returncode == 0
KStartWait ==
    /\ kpc = "wait"
    /\ WaitReturns(cpc)
    /\ started' = StartResult(returncode)
    /\ kpc' = "started"
    /\ UNCHANGED <<coordVars, restVars, callerPc, fs, bucket, kernel_build, mpc, mlog, storageCalls, mhist,
                   successful, i, elapsed, klog, khist, cpc, returncode, wrote>>

\* Kbuild.__run: if not started: log the error, else enter __monitor
KBranch ==
    /\ kpc = "started"
    /\ IF AfterStart(started) = "failed"
       THEN /\ klog' = klog \cup {"Build failed to start"}
            /\ kpc' = "exit"
            /\ UNCHANGED <<khist, i>>
       ELSE /\ klog' = klog \cup {"Entered monitor."}
            /\ khist' = Append(khist, "monitor")
            /\ i' = 0
            /\ kpc' = "monitor"
    /\ UNCHANGED <<coordVars, restVars, callerPc, fs, bucket, kernel_build, mpc, mlog, storageCalls, mhist,
                   started, successful, elapsed, cpc, returncode, wrote>>

\* Kbuild.__monitor: one sleep(1.0) of the inner loop
KMonitorSleep ==
    /\ kpc = "monitor"
    /\ i < MonitorSleeps
    /\ i' = i + 1
    /\ elapsed' = SatInc(elapsed)
    /\ UNCHANGED <<coordVars, restVars, callerPc, fs, bucket, kernel_build, mpc, mlog, storageCalls, mhist,
                   kpc, started, successful, klog, khist, cpc, returncode, wrote>>

\* Kbuild.__monitor: after the sleeps, query the image; break or go round again
KMonitorQuery ==
    /\ kpc = "monitor"
    /\ i = MonitorSleeps
    /\ klog' = klog \cup {"Querying build"}
    /\ IF MonitorBreaks(fs)
       THEN /\ successful' = "True"
            /\ kpc' = "finish"
            /\ i' = i
       ELSE /\ i' = 0
            /\ UNCHANGED <<successful, kpc>>
    /\ UNCHANGED <<coordVars, restVars, callerPc, fs, bucket, kernel_build, mpc, mlog, storageCalls, mhist,
                   started, elapsed, khist, cpc, returncode, wrote>>

\* Kbuild.__finish
KFinish ==
    /\ kpc = "finish"
    /\ fs' = IF IsFile(fs, image_file_path) THEN Remove(fs, image_file_path) ELSE fs
    /\ klog' = klog \cup {"Finished"}
    /\ khist' = Append(khist, "finish")
    /\ kpc' = "exit"
    /\ UNCHANGED <<coordVars, restVars, callerPc, bucket, kernel_build, mpc, mlog, storageCalls, mhist,
                   started, successful, i, elapsed, cpc, returncode, wrote>>

\* Kbuild.__run: exit()
KExit ==
    /\ kpc = "exit"
    /\ kpc' = "exited"
    /\ UNCHANGED <<coordVars, restVars, callerPc, fs, bucket, kernel_build, mpc, mlog, storageCalls, mhist,
                   started, successful, i, elapsed, klog, khist,
                   cpc, returncode, wrote>>

(***************************************************************************)
(* Text of HTTP bodies: sequences of characters                            *)
(***************************************************************************)

\* the literal '"status":' of __send_to_bldsrv
StatusMarker == <<"\"", "s", "t", "a", "t", "u", "s", "\"", ":">>

\* the literal '}' of __send_to_bldsrv
CloseBrace == <<"}">>

\* the literal 'false' that __run compares the result with
false_text == <<"f", "a", "l", "s", "e">>

ok_text == <<"o", "k">>

Quoted(w) == <<"\"">> \o w \o <<"\"">>

\* response bodies the build server may answer the command POST with
Bodies ==
    { <<"{">> \o StatusMarker \o Quoted(false_text) \o <<"}">>,
      <<"{", "\"", "m", "\"", ":", "1", ",">> \o StatusMarker
            \o Quoted(false_text) \o <<"}", "\n">>,
      <<"{">> \o StatusMarker \o Quoted(ok_text) \o <<"}">>,
      <<"{">> \o StatusMarker \o false_text \o <<"}">>,
      <<"{">> \o StatusMarker \o <<"{", "}", "}">>,
      <<"<", "h", "t", "m", "l", ">">> }

\* s[k .. k+Len(sep)-1] = sep
MatchAt(s, sep, k) ==
    /\ k + Len(sep) - 1 <= Len(s)
    /\ SubSeq(s, k, k + Len(sep) - 1) = sep

\* str.find: the first position sep occurs at, 0 when it does not occur
Find(s, sep) ==
    LET hits == {k \in 1..Len(s) : MatchAt(s, sep, k)}
    IN  IF hits = {} THEN 0 ELSE CHOOSE k \in hits : \A h \in hits : k <= h

Contains(s, sep) == Find(s, sep) # 0

\* str.split(sep)
RECURSIVE Split(_, _)
Split(s, sep) ==
    LET k == Find(s, sep)
    IN  IF k = 0 THEN <<s>>
        ELSE <<SubSeq(s, 1, k - 1)>> \o Split(SubSeq(s, k + Len(sep), Len(s)), sep)

\* r.content.split('"status":')[1].split('}')[0]
\* [raises |-> TRUE] stands for the IndexError of [1] on a body without the marker
ExtractStatus(body) ==
    LET parts == Split(body, StatusMarker)
    IN  IF Len(parts) < 2 THEN [raises |-> TRUE, value |-> <<>>]
        ELSE [raises |-> FALSE, value |-> Split(parts[2], CloseBrace)[1]]

\* the key of r.content['status']
StatusKey == [type |-> "str", value |-> "status"]

\* str.__getitem__(key): a str is indexed by integers only; any other key
\* raises TypeError
StrGetItemRaises(s, key) == key.type # "int"

(***************************************************************************)
(* BldsrvManager                                                           *)
(***************************************************************************)

\* bldsrvmanager.py __run: for _ in range(120)
BootWaitSecs == 120

\* BldsrvManager.__start: return returned == 0
BStartResult(rc) == IF rc = 0 THEN "True" ELSE "False"

BAfterStart_NoBranch(st) == "boot_wait"

\* BldsrvManager.__run: if not started: log the error, else wait and relay
BAfterStart(st) == IF st # "True" THEN "failed" ELSE "boot_wait"

BootWaitDone_Early(w) == w >= 1

\* BldsrvManager.__run: the wait loop ends after range(120) is used up
BootWaitDone(w) == w = BootWaitSecs

\* BldsrvManager.__run: if sent == 'false'
SentIsFailure(s) == s = false_text

\* responses to the login POST that are told apart
LoginResponses == {"accepted", "denied"}

\* BldsrvManager.run: fork the worker and return
BRun ==
    /\ bpc = "constructed"
    /\ bcallerPc = "idle"
    /\ bpc' = "start"
    /\ bcallerPc' = "in_run"
    /\ blog' = blog \cup {"Starting launching build server"}
    /\ UNCHANGED <<buildVars, restVars, bstarted, waits, netCalls, loginResp, content,
                   sent, bexc>>

\* BldsrvManager.run returns to its caller
BRunReturn ==
    /\ bcallerPc = "in_run"
    /\ RunReturns(bpc)
    /\ bcallerPc' = "returned"
    /\ UNCHANGED <<buildVars, restVars, bworkerVars>>

\* BldsrvManager.__start: call(['gce-xfstests', 'launch-bldsrv'])
BStart ==
    /\ bpc = "start"
    /\ \E rc \in ReturnCodes : bstarted' = BStartResult(rc)
    /\ bpc' = "started"
    /\ UNCHANGED <<buildVars, restVars, bcallerPc, waits, netCalls, loginResp, content, sent, bexc,
                   blog>>

\* BldsrvManager.__run: if not started
BBranch ==
    /\ bpc = "started"
    /\ IF BAfterStart(bstarted) = "failed"
       THEN /\ blog' = blog \cup {"Build server failed to start"}
            /\ bpc' = "exit"
       ELSE /\ blog' = blog \cup {"Successfully launched build server"}
            /\ bpc' = "boot_wait"
    /\ UNCHANGED <<buildVars, restVars, bcallerPc, bstarted, waits, netCalls, loginResp, content,
                   sent, bexc>>

\* BldsrvManager.__run: one sleep(1.0) of the wait loop
BBootWait ==
    /\ bpc = "boot_wait"
    /\ ~BootWaitDone(waits)
    /\ waits' = waits + 1
    /\ UNCHANGED <<buildVars, restVars, bcallerPc, bpc, bstarted, netCalls, loginResp, content,
                   sent, bexc, blog>>

\* BldsrvManager.__get_bldsrv_ip: instances().get(...).execute() returns the
\* address or raises
BGetIp ==
    /\ bpc = "boot_wait"
    /\ BootWaitDone(waits)
    /\ netCalls' = Append(netCalls, "get_ip")
    /\ \E raises \in BOOLEAN :
          IF raises THEN bpc' = "aborted" /\ bexc' = "get_ip"
                    ELSE bpc' = "read_pwd" /\ bexc' = bexc
    /\ UNCHANGED <<buildVars, restVars, bcallerPc, bstarted, waits, loginResp, content, sent, blog>>

\* BldsrvManager.__send_to_bldsrv: open('pwd.json'), json.load
BReadPwd ==
    /\ bpc = "read_pwd"
    /\ \E raises \in BOOLEAN :
          IF raises THEN bpc' = "aborted" /\ bexc' = "read_pwd"
                    ELSE bpc' = "post_login" /\ bexc' = bexc
    /\ UNCHANGED <<buildVars, restVars, bcallerPc, bstarted, waits, netCalls, loginResp, content,
                   sent, blog>>

\* BldsrvManager.__send_to_bldsrv: s.post(url_login, ...) answers or raises
BPostLogin ==
    /\ bpc = "post_login"
    /\ netCalls' = Append(netCalls, "login")
    /\ \/ \E r \in LoginResponses :
             /\ loginResp' = r
             /\ bpc' = "post_cmd"
             /\ bexc' = bexc
       \/ /\ loginResp' = loginResp
          /\ bpc' = "aborted"
          /\ bexc' = "login"
    /\ UNCHANGED <<buildVars, restVars, bcallerPc, bstarted, waits, content, sent, blog>>

\* BldsrvManager.__send_to_bldsrv: s.post(url_gce, ...) answers or raises
BPostCmd ==
    /\ bpc = "post_cmd"
    /\ netCalls' = Append(netCalls, "cmd")
    /\ \/ \E b \in Bodies :
             /\ content' = <<b>>
             /\ bpc' = "status"
             /\ bexc' = bexc
       \/ /\ content' = content
          /\ bpc' = "aborted"
          /\ bexc' = "cmd"
    /\ UNCHANGED <<buildVars, restVars, bcallerPc, bstarted, waits, loginResp, sent, blog>>

\* BldsrvManager.__send_to_bldsrv: logging.info(..., r.content['status']) and
\* the return; then __run: if sent == 'false': logging.error(...)
BStatus ==
    /\ bpc = "status"
    /\ IF StrGetItemRaises(content[1], StatusKey)
       THEN /\ bpc' = "aborted"
            /\ bexc' = "status"
            /\ UNCHANGED <<sent, blog>>
       ELSE LET x == ExtractStatus(content[1])
            IN  IF x.raises
                THEN /\ bpc' = "aborted"
                     /\ bexc' = "split"
                     /\ UNCHANGED <<sent, blog>>
                ELSE /\ sent' = <<x.value>>
                     /\ blog' = IF SentIsFailure(x.value)
                                THEN blog \cup {"Failed to send cmd to build server"}
                                ELSE blog
                     /\ bpc' = "exit"
                     /\ bexc' = bexc
    /\ UNCHANGED <<buildVars, restVars, bcallerPc, bstarted, waits, netCalls, loginResp, content>>

\* BldsrvManager.__run: exit()
BExit ==
    /\ bpc = "exit"
    /\ bpc' = "exited"
    /\ UNCHANGED <<buildVars, restVars, bcallerPc, bstarted, waits, netCalls, loginResp, content,
                   sent, bexc, blog>>

NextCoord ==
    \/ BRun
    \/ BRunReturn
    \/ BStart
    \/ BBranch
    \/ BBootWait
    \/ BGetIp
    \/ BReadPwd
    \/ BPostLogin
    \/ BPostCmd
    \/ BStatus
    \/ BExit

CoordSpec == Init /\ [][NextCoord]_vars

Next ==
    \/ Run
    \/ RunReturn
    \/ MSetupLogging
    \/ MStart
    \/ MWaitForBuild
    \/ MUploadBuild
    \/ MCleanup
    \/ MExit
    \/ KSetupLogging
    \/ KStartPopen
    \/ CompileExit
    \/ KStartWait
    \/ KBranch
    \/ KMonitorSleep
    \/ KMonitorQuery
    \/ KFinish
    \/ KExit

Spec == Init /\ [][Next]_vars

\* The build server and the test manager are two programs on two machines:
\* a behaviour follows the BuildManager of the one or the BldsrvManager of
\* the other.
NextServer ==
    \/ (bpc = "constructed" /\ Next)
    \/ (mpc = "constructed" /\ NextCoord)

ServerSpec == Init /\ [][NextServer]_vars

\* ---------------------------------------------------------------------
\* the clock and the generation of build ids
\* ---------------------------------------------------------------------

\* time passes
Tick ==
    /\ ticks < MaxTicks
    /\ \E step \in TickSteps : clock' = Advance(clock, step)
    /\ ticks' = ticks + 1
    /\ UNCHANGED <<buildVars, coordVars, extVars, kexc, utcoffset, ids, readings>>

\* the local wall clock is moved after an id was generated: daylight saving
\* time starts or ends, the time zone is set
ClockChange ==
    /\ ids # <<>>
    /\ \E off \in UtcOffsets \ {utcoffset} : utcoffset' = off
    /\ UNCHANGED <<buildVars, coordVars, extVars, kexc, clock, ticks, ids, readings>>

\* a BuildManager is constructed: self.id = get_datetime_build_id()
NewBuildId ==
    /\ Len(ids) < MaxIds
    /\ ids' = Append(ids, get_datetime_build_id(DatetimeNow(clock, utcoffset)))
    /\ readings' = Append(readings, [at |-> clock, off |-> utcoffset])
    /\ UNCHANGED <<buildVars, coordVars, extVars, kexc, clock, utcoffset, ticks>>

NextId ==
    \/ Tick
    \/ ClockChange
    \/ NewBuildId

\* nothing is running; the clock is at one of the start instants
IdInit ==
    /\ InitBuild
    /\ fs = [p \in Paths |-> "absent"]
    /\ bucket = {}
    /\ kernel_build = image_file_path
    /\ InitCoord
    /\ InitClock
    /\ InitIds
    /\ InitFields(DefaultOpts)
    /\ InitPairIdle

IdSpec == IdInit /\ [][NextId]_vars

\* ---------------------------------------------------------------------
\* BuildManager.get_info, called by the server while the worker runs
\* ---------------------------------------------------------------------

InfoOf_Swapped(r, c, b) == [repository |-> c, commit |-> r, id |-> b]

\* the dictionary get_info builds
InfoOf(r, c, b) == [repository |-> r, commit |-> c, id |-> b]

\* where the worker is, as the caller of get_info sees it
Phase ==
    IF mpc = "constructed" THEN "before"
    ELSE IF mpc \in {"exited", "aborted"} THEN "after"
    ELSE "during"

\* BuildManager.get_info
GetInfo ==
    /\ ctor = "done"
    /\ infos' = infos \cup {[phase |-> Phase, info |-> InfoOf(repository, commit, id)]}
    /\ UNCHANGED <<buildVars, coordVars, kexc, idVars, fieldVars, ctorVars, pairVars>>

\* instants at which the BuildManager of a request is constructed
InfoInstants ==
    { [s |-> SecsOf(2026, 1, 1, 0, 0, 0), us |-> 0],
      [s |-> SecsOf(2026, 9, 30, 23, 59, 58), us |-> 200000] }

InfoInit ==
    /\ InitBuild
    /\ bucket = {}
    /\ InitCoord
    /\ clock \in InfoInstants
    /\ utcoffset = 0
    /\ InitIds
    /\ \E o \in Requests : InitFields(o)
    /\ InitPairIdle

NextInfo ==
    \/ Next
    \/ GetInfo

InfoSpec == InfoInit /\ [][NextInfo]_vars

\* ---------------------------------------------------------------------
\* BuildManager.__init__, step by step
\* ---------------------------------------------------------------------

\* an attribute that has not been assigned
Unset == "<unset>"

\* the opts a caller may pass: both keys, one of them, or None
CtorRequests ==
    { DefaultOpts,
      [git_repo |-> "repo_a"],
      [commit_id |-> "commit_a"],
      [k \in {} |-> Unset] }

\* a call made by the constructor returns or raises
CtorOutcomes == {"ok", "raises"}

AfterCtorStep_Swallowed(o, next) == next

\* no statement of __init__ is inside a try: an exception ends the constructor
AfterCtorStep(o, next) == IF o = "ok" THEN next ELSE "raised"

\* the exception the caller gets from a step with outcome o
Propagated(o, exc) == IF o = "ok" THEN cexc ELSE exc

\* the constructor is entered; kernel_build stands for the path that lines
\* 78-80 derive from the repository
CtorInit ==
    /\ InitBuild
    /\ InitCoord
    /\ InitClockIdle
    /\ InitIds
    /\ id = <<>>
    /\ commit = Unset
    /\ repository = Unset
    /\ infos = {}
    /\ opts \in CtorRequests
    /\ InitPairIdle
    /\ ctor = "log_dir"
    /\ cexc = "none"

\* lines 57-68: self.id = get_datetime_build_id(), BLDSRV.create_log_dir(...)
CtorLogDir ==
    /\ ctor = "log_dir"
    /\ id' = get_datetime_build_id(DatetimeNow(clock, utcoffset))
    /\ \E o \in CtorOutcomes :
          /\ ctor' = AfterCtorStep(o, "config")
          /\ cexc' = Propagated(o, "OSError")
    /\ UNCHANGED <<buildVars, coordVars, kexc, idVars, repository, commit, infos, opts, pairVars>>

\* lines 70-72: gce_funcs.get_gs_bucket(), gce_funcs.get_bucket_subdir()
CtorConfig ==
    /\ ctor = "config"
    /\ \E o \in CtorOutcomes :
          /\ ctor' = AfterCtorStep(o, "opts")
          /\ cexc' = Propagated(o, "ConfigError")
    /\ UNCHANGED <<buildVars, coordVars, kexc, idVars, fieldVars, infos, opts, pairVars>>

\* lines 74-78: commit and repository are assigned only when opts has the key;
\* make_kernel_dir(self.repository) reads the attribute
CtorOpts ==
    /\ ctor = "opts"
    /\ commit' = IF "commit_id" \in DOMAIN opts THEN opts["commit_id"] ELSE commit
    /\ repository' = IF "git_repo" \in DOMAIN opts THEN opts["git_repo"] ELSE repository
    /\ LET o == IF "git_repo" \in DOMAIN opts THEN "ok" ELSE "raises"
       IN  /\ ctor' = AfterCtorStep(o, "paths")
           /\ cexc' = Propagated(o, "AttributeError")
    /\ UNCHANGED <<buildVars, coordVars, kexc, idVars, id, infos, opts, pairVars>>

\* lines 79-81: BLDSRV.repo_cache_path, BLDSRV.image_path, BLDSRV.image_name;
\* bldsrv.py as given defines none of them, so "raises" is what it does
CtorPaths ==
    /\ ctor = "paths"
    /\ \E o \in CtorOutcomes :
          /\ ctor' = AfterCtorStep(o, "kbuild")
          /\ cexc' = Propagated(o, "AttributeError")
    /\ UNCHANGED <<buildVars, coordVars, kexc, idVars, fieldVars, infos, opts, pairVars>>

\* lines 85-86: self.kbuild = Kbuild(self.repository, self.commit, ...); reading
\* self.commit raises when it was never assigned; Kbuild.__init__ as given
\* takes one argument fewer than it is handed, so "raises" is what it does
CtorKbuild ==
    /\ ctor = "kbuild"
    /\ \E o \in CtorOutcomes :
          IF commit = Unset
          THEN /\ ctor' = AfterCtorStep("raises", "done")
               /\ cexc' = Propagated("raises", "AttributeError")
          ELSE /\ ctor' = AfterCtorStep(o, "done")
               /\ cexc' = Propagated(o, "TypeError")
    /\ UNCHANGED <<buildVars, coordVars, kexc, idVars, fieldVars, infos, opts, pairVars>>

NextCtor ==
    \/ CtorLogDir
    \/ CtorConfig
    \/ CtorOpts
    \/ CtorPaths
    \/ CtorKbuild
    \/ Next

CtorSpec == CtorInit /\ [][NextCtor]_vars

\* ---------------------------------------------------------------------
\* two BuildManagers, each with its Kbuild, running on one build server
\* ---------------------------------------------------------------------

\* the instance that made log directory d, the one asking if there is none
LogDirOwner(n, d) ==
    IF \E m \in Insts : m # n /\ insts[m].id = d
    THEN CHOOSE m \in Insts : m # n /\ insts[m].id = d
    ELSE n

\* instance n does op to something that belongs to instance owner
Event(n, op, owner) == [by |-> n, op |-> op, owner |-> owner]

PairInit ==
    /\ InitBuild
    /\ fs = [p \in Paths |-> "absent"]
    /\ bucket = {}
    /\ kernel_build = image_file_path
    /\ InitCoord
    /\ clock = [s |-> SecsOf(2026, 9, 30, 23, 59, 58), us |-> 200000]
    /\ utcoffset = 0
    /\ InitIds
    /\ InitFields(DefaultOpts)
    /\ insts \in [Insts -> {NewInst(r) : r \in Repos}]
    /\ pfs = [p \in PairPaths |-> 0]
    /\ pevents = {}

\* BuildManager.__init__: the id is the clock's second, the log directory is
\* named after the id and made unless it exists
PConstruct(n) ==
    /\ insts[n].pc = "new"
    /\ LET d == get_datetime_build_id(DatetimeNow(clock, utcoffset))
       IN  /\ insts' = [insts EXCEPT ![n].id = d, ![n].pc = "constructed"]
           /\ pevents' = pevents \cup {Event(n, "log_dir", LogDirOwner(n, d))}
    /\ UNCHANGED <<buildVars, coordVars, kexc, idVars, fieldVars, infos, ctorVars, pfs>>

\* BuildManager.run, Kbuild.run, Kbuild.__start: the compile process is launched
PRun(n) ==
    /\ insts[n].pc = "constructed"
    /\ insts' = [insts EXCEPT ![n].pc = "compiling"]
    /\ UNCHANGED <<buildVars, coordVars, kexc, idVars, fieldVars, infos, ctorVars,
                   pfs, pevents>>

\* buildkernel.sh of instance n exits, having written some of its images;
\* Kbuild.__run monitors after a zero exit code and ends after any other
PCompileExit(n) ==
    /\ insts[n].pc = "compiling"
    /\ \E rc \in ReturnCodes, W \in SUBSET {image_file_path, RepoImage(insts[n].repo)} :
          /\ pfs' = [p \in PairPaths |-> IF p \in W THEN n ELSE pfs[p]]
          /\ insts' = [insts EXCEPT ![n].pc =
                          IF AfterStart(StartResult(<<rc>>)) = "monitor"
                          THEN "monitor" ELSE "exit"]
    /\ UNCHANGED <<buildVars, coordVars, kexc, idVars, fieldVars, infos, ctorVars, pevents>>

\* Kbuild.__monitor: os.path.isfile(self.image_file_path) ends the wait
PMonitorQuery(n) ==
    /\ insts[n].pc = "monitor"
    /\ pfs[image_file_path] # 0
    /\ pevents' = pevents \cup {Event(n, "wait", pfs[image_file_path])}
    /\ insts' = [insts EXCEPT ![n].pc = "finish"]
    /\ UNCHANGED <<buildVars, coordVars, kexc, idVars, fieldVars, infos, ctorVars, pfs>>

\* Kbuild.__finish: os.remove(self.image_file_path) when it is a file
PFinish(n) ==
    /\ insts[n].pc = "finish"
    /\ IF pfs[image_file_path] # 0
       THEN /\ pfs' = [pfs EXCEPT ![image_file_path] = 0]
            /\ pevents' = pevents \cup {Event(n, "remove", pfs[image_file_path])}
       ELSE UNCHANGED <<pfs, pevents>>
    /\ insts' = [insts EXCEPT ![n].pc = "exit"]
    /\ UNCHANGED <<buildVars, coordVars, kexc, idVars, fieldVars, infos, ctorVars>>

\* BuildManager.__finish after the join: __upload_build and __cleanup on
\* self.kernel_build when it is a file
PUploadCleanup(n) ==
    /\ insts[n].pc = "exit"
    /\ LET kb == RepoImage(insts[n].repo)
       IN  IF pfs[kb] # 0
           THEN /\ pfs' = [pfs EXCEPT ![kb] = 0]
                /\ pevents' = pevents \cup {Event(n, "upload", pfs[kb]),
                                            Event(n, "remove", pfs[kb])}
           ELSE UNCHANGED <<pfs, pevents>>
    /\ insts' = [insts EXCEPT ![n].pc = "done"]
    /\ UNCHANGED <<buildVars, coordVars, kexc, idVars, fieldVars, infos, ctorVars>>

NextPair ==
    \/ Tick
    \/ \E n \in Insts : PConstruct(n)
    \/ \E n \in Insts : PRun(n)
    \/ \E n \in Insts : PCompileExit(n)
    \/ \E n \in Insts : PMonitorQuery(n)
    \/ \E n \in Insts : PFinish(n)
    \/ \E n \in Insts : PUploadCleanup(n)

PairSpec == PairInit /\ [][NextPair]_vars





(***************************************************************************)
(* Claims about the orchestrator and its job (checked under Spec)          *)
(***************************************************************************)

ImageBlobs == Blobs(bucket, kernel_build_filename)

C2_MonitorAfterFailedStart ==
    (kpc = "exited" /\ returncode # <<>> /\ returncode # <<0>>)
        => "monitor" \in Range(khist)

\* C2 as amended: after a non-zero exit the job logs that the build failed to
\* start and exits; it enters neither the monitor phase nor finish.
C2_FailedStartSkipsMonitor ==
    (returncode # <<>> /\ returncode # <<0>> /\ kpc \notin {"wait"})
        => /\ started = "False"
           /\ kpc \in {"started", "exit", "exited"}
           /\ khist = <<"start">>
           /\ successful = "unset"
           /\ kpc \in {"exit", "exited"} => "Build failed to start" \in klog

C2_Witness ==
    kpc = "exited" /\ returncode = <<1>> /\ "Build failed to start" \in klog

\* C3 as stated: if the artifact was present when the finish step ran, then
\* after the run it has been uploaded, the bucket holds exactly one blob of
\* the configured name and the local file is gone.
C3_PresentIsUploaded ==
    (mpc \in {"exited", "aborted"} /\ mhist # <<>> /\ mhist[1] = "found")
        => /\ "uploaded" \in Range(mhist)
           /\ Cardinality(ImageBlobs) = 1
           /\ ~IsFile(fs, kernel_build)

\* C3 as amended: if the artifact is present when the finish step runs, the
\* orchestrator attempts the upload under the configured blob name; when no
\* storage call raises, the bucket then holds exactly one blob of that name
\* and only afterwards the local file is removed; when a storage call raises,
\* the worker ends there and the local file stays.
C3_UploadThenRemove ==
    /\ mhist \in { <<>>, <<"notfound">>, <<"found", "raised">>,
                   <<"found", "uploaded">>, <<"found", "uploaded", "removed">> }
    /\ "uploaded" \in Range(mhist)
          => /\ Cardinality(ImageBlobs) = 1
             /\ storageCalls = <<"Client", "lookup_bucket", "upload_from_file">>
    /\ (mpc = "exited" /\ mhist # <<>> /\ mhist[1] = "found")
          => /\ mhist = <<"found", "uploaded", "removed">>
             /\ ~IsFile(fs, kernel_build)
    /\ mpc = "aborted"
          => /\ mhist = <<"found", "raised">>
             /\ IsFile(fs, kernel_build)

C3_Witness ==
    /\ mpc = "exited"
    /\ mhist = <<"found", "uploaded", "removed">>
    /\ ImageBlobs = {[name |-> kernel_build_filename, data |-> "built"]}

\* C4: if the artifact is absent when the upload step runs, the step makes no
\* storage call at all and logs that nothing was found to upload.
C4_AbsentNoStorageCalls ==
    (mhist # <<>> /\ mhist[1] = "notfound")
        => /\ storageCalls = <<>>
           /\ "Could not find bzImage to upload." \in mlog

C4_Witness ==
    mpc = "exited" /\ mhist = <<"notfound">> /\ storageCalls = <<>>

\* C5: the monitor phase gives up after the documented 30 minutes: it is never
\* still polling once more than 30 minutes of sleeps have gone by.
C5_MonitorTimesOut ==
    elapsed > MonitorTimeoutSecs => kpc # "monitor"

\* C6: the upload attempt never happens before the job's worker has exited,
\* and the orchestrator's cleanup never happens before the upload attempt.
C6_JobThenUploadThenCleanup ==
    /\ (mhist # <<>> \/ storageCalls # <<>>) => kpc = "exited"
    /\ (mpc \in {"cleanup", "done", "exited"} \/ "removed" \in Range(mhist)
            \/ "Finished cleanup" \in mlog)
          => (mhist # <<>> /\ mhist[1] \in {"found", "notfound"})

C6_Witness ==
    /\ mpc = "done"
    /\ kpc = "exited"
    /\ "Finished cleanup" \in mlog
    /\ mhist = <<"found", "uploaded", "removed">>

\* C7: within one job the compile process has exited before the monitor phase
\* begins, the monitor has returned before finish runs, and the phases are
\* entered only in the order start, monitor, finish.
C7_StartMonitorFinish ==
    /\ khist \in { <<>>, <<"start">>, <<"start", "monitor">>,
                   <<"start", "monitor", "finish">> }
    /\ (started # "unset" \/ "monitor" \in Range(khist)) => cpc = "exited"
    /\ kpc = "monitor" => "monitor" \in Range(khist)
    /\ "finish" \in Range(khist) => successful = "True"
    /\ kpc = "finish" => (successful = "True" /\ khist = <<"start", "monitor">>)

C7_Witness ==
    /\ kpc = "exited"
    /\ khist = <<"start", "monitor", "finish">>
    /\ cpc = "exited"

(***************************************************************************)
(* Claims about the remote coordinator (checked under CoordSpec)           *)
(***************************************************************************)

\* C8: if the provisioning command exits non-zero, the worker logs an error
\* and stops: no boot wait, no address query, no login POST, no command POST.
C8_ProvisionFailureStops ==
    bstarted = "False"
        => /\ bpc \in {"started", "exit", "exited"}
           /\ waits = 0
           /\ netCalls = <<>>
           /\ content = <<>>
           /\ bpc \in {"exit", "exited"} => "Build server failed to start" \in blog

C8_Witness ==
    /\ bpc = "exited"
    /\ bstarted = "False"
    /\ "Build server failed to start" \in blog

\* C9 as stated: when provisioning succeeded, a worker that has ended has done
\* the 120 waits, the address query, the login POST and the command POST,
\* each exactly once and in that order.
C9_AllStepsExactlyOnce ==
    (bstarted = "True" /\ bpc \in {"aborted", "exited"})
        => /\ waits = BootWaitSecs
           /\ netCalls = <<"get_ip", "login", "cmd">>

\* C9 as amended: when provisioning succeeded the worker does, in this order
\* and each at most once, the full 120 one-second waits, the address query,
\* the login POST and the command POST; a step is done exactly once when
\* every call before it returned (a call that raises ends the worker there);
\* the command POST is sent whatever the login response was; no POST is
\* retried.
C9_HandoffOrder ==
    /\ netCalls \in { <<>>, <<"get_ip">>, <<"get_ip", "login">>,
                      <<"get_ip", "login", "cmd">> }
    /\ netCalls # <<>> => (waits = BootWaitSecs /\ bstarted = "True")
    /\ waits > 0 => bstarted = "True"
    /\ bpc = "boot_wait" => netCalls = <<>>
    /\ bpc = "read_pwd" => netCalls = <<"get_ip">>
    /\ bpc = "post_login" => netCalls = <<"get_ip">>
    /\ loginResp # "none"
          => \/ bpc = "post_cmd" /\ netCalls = <<"get_ip", "login">>
             \/ netCalls = <<"get_ip", "login", "cmd">>
    /\ bpc = "aborted"
          => netCalls = CASE bexc = "get_ip"   -> <<"get_ip">>
                          [] bexc = "read_pwd" -> <<"get_ip">>
                          [] bexc = "login"    -> <<"get_ip", "login">>
                          [] OTHER             -> <<"get_ip", "login", "cmd">>
    /\ (bstarted = "True" /\ bpc = "exited")
          => netCalls = <<"get_ip", "login", "cmd">>

C9_Witness ==
    /\ bstarted = "True"
    /\ waits = BootWaitSecs
    /\ loginResp = "denied"
    /\ netCalls = <<"get_ip", "login", "cmd">>
    /\ content # <<>>

\* C10: for a command-submission response holding "status":"false"} the
\* status text the extraction yields is exactly false (no quotes), and for a
\* response holding "status":"ok"} it is exactly ok.
C10_StatusExtraction ==
    content # <<>> =>
        LET body == content[1]
            x == ExtractStatus(body)
        IN  /\ Contains(body, StatusMarker \o Quoted(false_text) \o CloseBrace)
                 => (~x.raises /\ x.value = false_text)
            /\ Contains(body, StatusMarker \o Quoted(ok_text) \o CloseBrace)
                 => (~x.raises /\ x.value = ok_text)

\* C11: whenever the status extracted from the command-submission response
\* is the failure sentinel false, a worker that has ended has logged 'Failed
\* to send cmd to build server'; for any other status it has not.
C11_FailureLogged ==
    (content # <<>> /\ bpc \in {"exited", "aborted"})
        => LET x == ExtractStatus(content[1])
           IN  ("Failed to send cmd to build server" \in blog)
                   <=> (~x.raises /\ x.value = false_text)

(***************************************************************************)
(* Further claims about the orchestrator and its job (checked under Spec)  *)
(***************************************************************************)

\* C13: a storage call that raises in the finish step is fatal: the worker
\* ends there, the upload is not tried again, and neither the local cleanup
\* nor the 'Done.' exit happens.
C13_UploadFailureFatal ==
    "raised" \in Range(mhist)
        => /\ mpc = "aborted"
           /\ mhist = <<"found", "raised">>
           /\ storageCalls \in { <<"Client">>, <<"Client", "lookup_bucket">>,
                                 <<"Client", "lookup_bucket", "upload_from_file">> }
           /\ IsFile(fs, kernel_build)
           /\ "Finished cleanup" \notin mlog
           /\ "Done." \notin mlog

C13_Witness ==
    /\ mpc = "aborted"
    /\ storageCalls = <<"Client", "lookup_bucket">>
    /\ IsFile(fs, kernel_build)

\* C17: once the job's finish has run, the artifact is absent at the job's
\* artifact path until the orchestrator's upload check, which therefore finds
\* nothing when it looks at that path.
C17_FinishRemovesArtifact ==
    "finish" \in Range(khist)
        => /\ mhist = <<>> => ~IsFile(fs, image_file_path)
           /\ (mhist # <<>> /\ kernel_build = image_file_path)
                 => mhist[1] = "notfound"

C17_Witness ==
    /\ "finish" \in Range(khist)
    /\ image_file_path \in wrote
    /\ kernel_build = image_file_path
    /\ mhist = <<"notfound">>

\* C18 as stated: start returns only once the compile process has exited,
\* returns true exactly when the exit code was zero, and never raises.
C18_StartNeverRaises ==
    /\ started # "unset" => (cpc = "exited" /\ started = StartResult(returncode))
    /\ kexc = "none"

\* C18 as amended: start returns only once the compile process has exited and
\* then returns true exactly when the exit code was zero; a non-zero exit is
\* reported through the return value only; start raises only when opening the
\* build log or launching the process fails, before any compile process runs.
C18_StartReportsExitCode ==
    /\ started # "unset"
          => /\ cpc = "exited"
             /\ kexc = "none"
             /\ started = "True" <=> returncode = <<0>>
             /\ started = "False" <=> returncode # <<0>>
    /\ (cpc = "exited" /\ kpc # "wait") => started # "unset"
    /\ kexc # "none"
          => /\ kexc \in {"open_raises", "popen_raises"}
             /\ cpc = "none"
             /\ returncode = <<>>
             /\ started = "unset"
             /\ khist = <<"start">>

C18_Witness ==
    /\ started = "False"
    /\ returncode = <<1>>
    /\ kexc = "none"
    /\ kpc = "started"

\* ---- comparisons of build ids ----

Min(a, b) == IF a < b THEN a ELSE b

\* a < b as Python compares two strings of digits
LexLess(a, b) ==
    \E k \in 1..(Min(Len(a), Len(b)) + 1) :
        /\ \A j \in 1..(k - 1) : a[j] = b[j]
        /\ \/ (k > Len(a) /\ k <= Len(b))
           \/ (k <= Len(a) /\ k <= Len(b) /\ a[k] < b[k])

RECURSIVE StripZeros(_)
StripZeros(a) ==
    IF Len(a) > 1 /\ a[1] = 0 THEN StripZeros(Tail(a)) ELSE a

\* int(a) < int(b) for two strings of digits
NumLess(a, b) ==
    LET x == StripZeros(a)
        y == StripZeros(b)
    IN  Len(x) < Len(y) \/ (Len(x) = Len(y) /\ LexLess(x, y))

\* instant b is at least one full second after instant a
OneSecondApart(a, b) ==
    b.s - a.s >= 2 \/ (b.s - a.s = 1 /\ b.us >= a.us)

\* the second of the local wall clock read for the n-th id
WallSecond(n) == readings[n].at.s + readings[n].off

\* C12 as stated: of two ids generated at least one full second apart the
\* later is strictly greater, lexically and numerically, and two ids generated
\* within the same second are equal.
C12_OrderedByCreationTime ==
    \A m \in 1..Len(ids) : \A n \in 1..Len(ids) :
        m < n =>
            /\ OneSecondApart(readings[m].at, readings[n].at)
                  => (LexLess(ids[m], ids[n]) /\ NumLess(ids[m], ids[n]))
            /\ readings[m].at.s = readings[n].at.s => ids[m] = ids[n]

\* C12 as amended: every id has 14 digits; ids order, lexically and
\* numerically, like the seconds read from the local wall clock, and are equal
\* when that second is the same; two ids generated at least one full second
\* apart with the wall clock not moved back in between have the later one
\* strictly greater, and two generated in the same second with the wall clock
\* not moved in between are equal.
C12_OrderedByWallClock ==
    \A m \in 1..Len(ids) : \A n \in 1..Len(ids) :
        /\ Len(ids[m]) = 14
        /\ WallSecond(m) < WallSecond(n)
              => (LexLess(ids[m], ids[n]) /\ NumLess(ids[m], ids[n]))
        /\ WallSecond(m) = WallSecond(n) => ids[m] = ids[n]
        /\ (m < n /\ readings[m].off <= readings[n].off
                  /\ OneSecondApart(readings[m].at, readings[n].at))
              => (LexLess(ids[m], ids[n]) /\ NumLess(ids[m], ids[n]))
        /\ (readings[m].off = readings[n].off
                  /\ readings[m].at.s = readings[n].at.s)
              => ids[m] = ids[n]

\* two ids of one second, then one across the end of September
C12_Witness ==
    /\ Len(ids) = 3
    /\ ids[1] = <<2,0,2,6,0,9,3,0,2,3,5,9,5,8>>
    /\ ids[2] = ids[1]
    /\ readings[1].at # readings[2].at
    /\ ids[3] = <<2,0,2,6,1,0,0,1,0,0,0,0,0,0>>
    /\ OneSecondApart(readings[2].at, readings[3].at)

\* C15: get_info returns exactly the repository, commit and id of the
\* BuildManager, whether it is called before, during or after the worker's
\* run; a call changes nothing but what it returns, and no step of the worker
\* or of the job changes the three fields.
C15_GetInfoReadOnly ==
    /\ [](\A x \in infos :
            x.info = [repository |-> repository, commit |-> commit, id |-> id])
    /\ [][ /\ <<repository, commit, id>>' = <<repository, commit, id>>
           /\ infos' # infos
                 => UNCHANGED <<buildVars, coordVars, kexc, idVars>> ]_vars

C15_Witness ==
    /\ mpc = "aborted"
    /\ {x.phase : x \in infos} = {"before", "during", "after"}
    /\ \A x \in infos : x.info.repository = "repo_b" /\ x.info.id[6] = 9

C19_RunDoesNotWait ==
    /\ callerPc = "in_run" => ENABLED RunReturn
    /\ bcallerPc = "in_run" => ENABLED BRunReturn
    /\ callerPc \in {"idle", "in_run", "returned"}
    /\ bcallerPc \in {"idle", "in_run", "returned"}
    /\ callerPc = "idle" <=> mpc = "constructed"
    /\ bcallerPc = "idle" <=> bpc = "constructed"
    /\ (mpc = "aborted" \/ bpc = "aborted" \/ elapsed > MonitorTimeoutSecs)
          => /\ callerPc # "idle" \/ bcallerPc # "idle"
             /\ repository = DefaultOpts.git_repo
             /\ commit = DefaultOpts.commit_id
             /\ id = get_datetime_build_id(DatetimeNow(clock, utcoffset))

\* the caller has returned while the job polls past the documented time limit
C19_Witness ==
    /\ callerPc = "returned"
    /\ mpc = "wait_for_build"
    /\ kpc = "monitor"
    /\ elapsed > MonitorTimeoutSecs

\* C14: of two BuildManagers running at once, neither the BuildManager nor
\* its job waits on, removes or uploads a file that the other's compile wrote,
\* and no two of them use one log directory.
C14_NothingShared ==
    /\ \A e \in pevents : e.owner = e.by
    /\ \A m \in Insts : \A n \in Insts :
          (m # n /\ insts[m].id # <<>>) => insts[m].id # insts[n].id

====
